---- MODULE Spec2Model ----
(***************************************************************************)
(* x2doc: conversion between the nested x2doc XML dialect and a flat,      *)
(* heading-styled Word document (src/main/document.py, src/main/tasks.py). *)
(*                                                                         *)
(* Strings are sequences of one-character strings, so that str.strip,      *)
(* str.startswith, str.split and int() are computed and not assumed.       *)
(* The fixed texts of the program ("Untitled Document", "chapter-") are    *)
(* written as one token.  Python's None is the value None below, which is  *)
(* no string.  Indices are 0-based as in the source: block i of a list is  *)
(* paragraphs[i + 1] here.                                                 *)
(***************************************************************************)
EXTENDS Integers, Sequences, FiniteSets, TLC

VARIABLES
    task,           \* the invoke task that runs (tasks.py), or the operation under study
    pc,             \* position in that task
    input_file,     \* content of the input path
    output_file,    \* content of the output path
    output_before,  \* content of the output path when the task was called
    blocks,         \* Document.from_word: list(iter_block_items(docx_document))
    index,          \* Document.from_word: index
    title,          \* Document.from_word: title
    chapters,       \* Document.from_word: chapters
    iterations,     \* Document.from_word: iterations of its while loop so far
    doc,            \* the Document built in memory
    xml_string,     \* the text Document.to_xml returned
    reparsed,       \* the Document read back from xml_string
    table,          \* the Table handed to Table.to_word
    docx_document   \* the blocks of the Word document under construction

vars == << task, pc, input_file, output_file, output_before, blocks, index,
           title, chapters, iterations, doc, xml_string, reparsed, table,
           docx_document >>

---------------------------------------------------------------------------
(* Bounds of the model *)

\* longest block list of a Word document whose outline is reconstructed
MaxOutline == 4

---------------------------------------------------------------------------
(* Python values *)

None == << "None" >>

\* the character that marks the text of the block at position i
Letter(i) == << "a", "b", "c", "d", "e", "f", "g", "h" >>[i + 1]

\* str(i) for the small indices of the model
Decimal(i) == << "0", "1", "2", "3", "4", "5", "6", "7", "8", "9" >>[i + 1]

RECURSIVE lstrip(_)
lstrip(s) ==
    IF s = << >> THEN s
    ELSE IF Head(s) = " " THEN lstrip(Tail(s)) ELSE s

RECURSIVE rstrip(_)
rstrip(s) ==
    IF s = << >> THEN s
    ELSE IF s[Len(s)] = " " THEN rstrip(SubSeq(s, 1, Len(s) - 1)) ELSE s

\* str.strip()
strip(s) == rstrip(lstrip(s))

\* str.startswith(prefix)
startswith(s, prefix) ==
    /\ Len(s) >= Len(prefix)
    /\ SubSeq(s, 1, Len(prefix)) = prefix

\* str.split()[-1]: the last whitespace-separated token; << >> when there is
\* none (Python raises IndexError there)
RECURSIVE LastTokenStart(_, _)
LastTokenStart(s, k) ==
    IF k = 0 THEN 1
    ELSE IF s[k] = " " THEN k + 1 ELSE LastTokenStart(s, k - 1)

split_last(s) ==
    LET t == rstrip(s)
    IN  IF t = << >> THEN << >>
        ELSE SubSeq(t, LastTokenStart(t, Len(t)), Len(t))

Digits == { "0", "1", "2", "3", "4", "5", "6", "7", "8", "9" }

DigitValue(c) ==
    CASE c = "0" -> 0 [] c = "1" -> 1 [] c = "2" -> 2 [] c = "3" -> 3
      [] c = "4" -> 4 [] c = "5" -> 5 [] c = "6" -> 6 [] c = "7" -> 7
      [] c = "8" -> 8 [] c = "9" -> 9

AllDigits(s) == s # << >> /\ \A k \in 1..Len(s) : s[k] \in Digits

RECURSIVE DigitsValue(_)
DigitsValue(s) ==
    IF s = << >> THEN 0
    ELSE 10 * DigitsValue(SubSeq(s, 1, Len(s) - 1)) + DigitValue(s[Len(s)])

\* int(s) raises ValueError
int_raises(s) ==
    IF s # << >> /\ Head(s) \in { "-", "+" }
    THEN ~ AllDigits(Tail(s))
    ELSE ~ AllDigits(s)

\* int(s), where it does not raise
int(s) ==
    IF Head(s) = "-" THEN 0 - DigitsValue(Tail(s))
    ELSE IF Head(s) = "+" THEN DigitsValue(Tail(s))
    ELSE DigitsValue(s)

---------------------------------------------------------------------------
(* Word blocks, as python-docx hands them to the program *)

StyleTitle    == << "T", "i", "t", "l", "e" >>
StyleNormal   == << "N", "o", "r", "m", "a", "l" >>
StyleHeading  == << "H", "e", "a", "d", "i", "n", "g" >>

\* python-docx add_heading: style "Title" for level 0, "Heading <level>" else
HeadingStyle(level) ==
    IF level = 0 THEN StyleTitle ELSE StyleHeading \o << " ", Decimal(level) >>

DocxParagraph(style, text) ==
    [ type |-> "DocxParagraph", style |-> style, text |-> text ]

\* a table cell: its text and its width (0: none set)
DocxCell(text) == [ text |-> text, width |-> 0 ]

\* a table: its rows, each a sequence of cells
DocxTable(rows) == [ type |-> "DocxTable", rows |-> rows ]

IsDocxParagraph(block) == block.type = "DocxParagraph"
IsDocxTable(block)     == block.type = "DocxTable"

---------------------------------------------------------------------------
(* The element model *)

\* Paragraph.__init__
Paragraph(text) == [ kind |-> "Paragraph", text |-> strip(text) ]

\* Table.__init__
Table(columns, rows) == [ kind |-> "Table", columns |-> columns, rows |-> rows ]

\* Chapter.__init__ (elements or [])
Chapter(title_, id_, elements) ==
    [ kind |-> "Chapter", title |-> strip(title_), id_ |-> id_,
      elements |-> elements ]

\* Document.__init__
Document(title_, elements) ==
    [ title |-> strip(title_), elements |-> elements ]

\* f"chapter-{current_index}"
ChapterId(current_index) == << "chapter-", Decimal(current_index) >>

UntitledDocument == << "Untitled Document" >>
UntitledChapter  == << "Untitled Chapter" >>
UnknownId        == << "unknown-id" >>

\* Paragraph.from_word
Paragraph_from_word(paragraph) == Paragraph(paragraph.text)

\* Table.from_word: the first row gives the columns, the others the rows
Table_from_word(tbl) ==
    IF tbl.rows # << >>
    THEN Table(
           [ i \in 1..Len(tbl.rows[1]) |-> << strip(tbl.rows[1][i].text), None >> ],
           [ r \in 1..(Len(tbl.rows) - 1) |->
               [ i \in 1..Len(tbl.rows[r + 1]) |-> strip(tbl.rows[r + 1][i].text) ] ])
    ELSE Table(<< >>, << >>)

---------------------------------------------------------------------------
(* Flattening: to_word *)

\* python-docx add_heading(text, level)
add_heading(docx, text, level) ==
    Append(docx, DocxParagraph(HeadingStyle(level), text))

\* python-docx add_paragraph(text)
add_paragraph(docx, text) == Append(docx, DocxParagraph(StyleNormal, text))

\* python-docx add_table(rows=1, cols=n) and add_row(): a row of n empty cells
EmptyRow(n) == [ i \in 1..n |-> DocxCell(<< >>) ]

\* if width: a width that is neither None nor ""
HasWidth(width) == width # None /\ width # << >>

\* float(width) raises ValueError; the widths of the model are without
\* fraction and exponent
float_raises(width) == int_raises(strip(width))

\* Cm((float(width) / 100) * TOTAL_TABLE_WIDTH_CM), in EMU (360000 to the cm)
TOTAL_TABLE_WIDTH_CM == 15

ColumnWidth(width) == (int(strip(width)) * TOTAL_TABLE_WIDTH_CM * 360000) \div 100

\* the header row: hdr_cells[i].text = col, and the width where it parses
HeaderRow(columns) ==
    [ i \in 1..Len(columns) |->
        [ text  |-> columns[i][1],
          width |-> IF HasWidth(columns[i][2]) /\ ~ float_raises(columns[i][2])
                    THEN ColumnWidth(columns[i][2]) ELSE 0 ] ]

\* mutant: the last cell of a row is never written
CellInRange_short(i, row_cells) == i < Len(row_cells) - 1

\* if i < len(row_cells)
CellInRange(i, row_cells) == i < Len(row_cells)

\* for i, cell_data in enumerate(row_data), from i on
RECURSIVE WriteCells(_, _, _)
WriteCells(row_cells, row_data, i) ==
    IF ~ (i < Len(row_data)) THEN row_cells
    ELSE WriteCells(IF CellInRange(i, row_cells)
                    THEN [ row_cells EXCEPT ![i + 1].text = row_data[i + 1] ]
                    ELSE row_cells,
                    row_data, i + 1)

\* for row_data in self.rows, from row r on (0-based): add_row and fill it
RECURSIVE AddRows(_, _, _)
AddRows(table_rows, rows, r) ==
    IF ~ (r < Len(rows)) THEN table_rows
    ELSE AddRows(Append(table_rows,
                        WriteCells(EmptyRow(Len(table_rows[1])), rows[r + 1], 0)),
                 rows, r + 1)

\* Table.to_word: nothing without columns, else one table block
Table_to_word(docx, t) ==
    IF t.columns = << >> THEN docx
    ELSE Append(docx, DocxTable(AddRows(<< HeaderRow(t.columns) >>, t.rows, 0)))

\* Paragraph.to_word
Paragraph_to_word(docx, p) == add_paragraph(docx, p.text)

\* mutant: the elements of a chapter are emitted at the chapter's own level
ChildLevel_same(level) == level

\* level + 1, the level of a chapter's elements
ChildLevel(level) == level + 1

RECURSIVE Element_to_word(_, _, _)
RECURSIVE Elements_to_word(_, _, _)

\* for element in elements: element.to_word(docx_document, level)
Elements_to_word(docx, elements, level) ==
    IF elements = << >> THEN docx
    ELSE Elements_to_word(Element_to_word(docx, Head(elements), level),
                          Tail(elements), level)

\* element.to_word(docx_document, level): Chapter.to_word, Table.to_word or
\* Paragraph.to_word
Element_to_word(docx, e, level) ==
    IF e.kind = "Chapter"
    THEN Elements_to_word(add_heading(docx, e.title, level), e.elements,
                          ChildLevel(level))
    ELSE IF e.kind = "Table" THEN Table_to_word(docx, e)
    ELSE Paragraph_to_word(docx, e)

\* Document.to_word: the blocks saved to the file
Document_to_word(d) ==
    Elements_to_word(add_heading(<< >>, d.title, 0), d.elements, 1)

---------------------------------------------------------------------------
(* The tree format: ElementTree *)

\* an ET.Element; attrib is a set of << name, value >>
Element(tag, attrib, text, children) ==
    [ tag |-> tag, attrib |-> attrib, text |-> text, children |-> children ]

\* attrib.get(name, default)
get(attrib, name, default) ==
    IF \E a \in attrib : a[1] = name
    THEN (CHOOSE a \in attrib : a[1] = name)[2]
    ELSE default

\* element.findall(tag): the direct children with that tag
findall(element, tag) ==
    SelectSeq(element.children, LAMBDA child : child.tag = tag)

\* ET.tostring then ET.fromstring keep an element as it is, but for a text
\* of "", which is written as no text and read back as None
RECURSIVE Serialized(_)
Serialized(element) ==
    [ tag      |-> element.tag,
      attrib   |-> element.attrib,
      text     |-> IF element.text = << >> THEN None ELSE element.text,
      children |-> [ i \in 1..Len(element.children) |->
                       Serialized(element.children[i]) ] ]

\* ET.tostring(element, encoding='unicode'): the text of a well-formed document
tostring(element) == [ wellformed |-> TRUE, root |-> Serialized(element) ]

\* text that is no well-formed XML
MalformedXml ==
    [ wellformed |-> FALSE, root |-> Element("", { }, None, << >>) ]

\* text or ""
TextOrEmpty(text) == IF text = None THEN << >> ELSE text

\* Paragraph.to_xml
Paragraph_to_xml(p) == Element("paragraph", { }, p.text, << >>)

\* Table.to_xml
Table_to_xml(t) ==
    Element("table", { }, None,
      << Element("columns", { }, None,
           [ i \in 1..Len(t.columns) |->
               Element("column",
                       IF HasWidth(t.columns[i][2])
                       THEN { << "width", t.columns[i][2] >> } ELSE { },
                       t.columns[i][1], << >>) ]),
         Element("rows", { }, None,
           [ r \in 1..Len(t.rows) |->
               Element("row", { }, None,
                 [ i \in 1..Len(t.rows[r]) |->
                     Element("cell", { }, t.rows[r][i], << >>) ]) ]) >>)

RECURSIVE Element_to_xml(_)

\* Chapter.to_xml
Chapter_to_xml(c) ==
    Element("chapter", { << "title", c.title >>, << "id", c.id_ >> }, None,
            [ i \in 1..Len(c.elements) |-> Element_to_xml(c.elements[i]) ])

\* element.to_xml()
Element_to_xml(e) ==
    IF e.kind = "Chapter" THEN Chapter_to_xml(e)
    ELSE IF e.kind = "Table" THEN Table_to_xml(e)
    ELSE Paragraph_to_xml(e)

\* Document.to_xml
Document_to_xml(d) ==
    tostring(Element("document", { << "title", d.title >> }, None,
                     [ i \in 1..Len(d.elements) |-> Element_to_xml(d.elements[i]) ]))

\* Paragraph.from_xml
Paragraph_from_xml(paragraph_element) ==
    Paragraph(TextOrEmpty(paragraph_element.text))

\* Table.from_xml raises: table_element.find('columns') is None
Table_from_xml_raises(table_element) ==
    findall(table_element, "columns") = << >>

\* Table.from_xml
Table_from_xml(table_element) ==
    LET cols  == findall(findall(table_element, "columns")[1], "column")
        rowss == findall(table_element, "rows")
        rws   == IF rowss = << >> THEN << >> ELSE findall(rowss[1], "row")
    IN  Table([ i \in 1..Len(cols) |->
                  << cols[i].text, get(cols[i].attrib, "width", None) >> ],
              [ r \in 1..Len(rws) |->
                  LET cells == findall(rws[r], "cell")
                  IN  [ i \in 1..Len(cells) |-> TextOrEmpty(cells[i].text) ] ])

KnownTags == { "chapter", "table", "paragraph" }

RECURSIVE Chapter_from_xml(_)
RECURSIVE Chapter_from_xml_raises(_)

\* the children of a chapter element that give an element (the others are
\* skipped with a warning)
KnownChildren(chapter_element) ==
    SelectSeq(chapter_element.children, LAMBDA child : child.tag \in KnownTags)

\* Chapter.from_xml
Chapter_from_xml(chapter_element) ==
    LET known == KnownChildren(chapter_element)
    IN  Chapter(get(chapter_element.attrib, "title", UntitledChapter),
                get(chapter_element.attrib, "id", UnknownId),
                [ i \in 1..Len(known) |->
                    IF known[i].tag = "chapter" THEN Chapter_from_xml(known[i])
                    ELSE IF known[i].tag = "table" THEN Table_from_xml(known[i])
                    ELSE Paragraph_from_xml(known[i]) ])

\* Chapter.from_xml raises: a table below it does
Chapter_from_xml_raises(chapter_element) ==
    \E i \in 1..Len(chapter_element.children) :
        LET child == chapter_element.children[i]
        IN  \/ child.tag = "table" /\ Table_from_xml_raises(child)
            \/ child.tag = "chapter" /\ Chapter_from_xml_raises(child)

\* Document.from_xml raises: ET.fromstring does (ParseError), or a chapter does
Document_from_xml_raises(xml) ==
    \/ ~ xml.wellformed
    \/ \E i \in 1..Len(xml.root.children) :
          /\ xml.root.children[i].tag = "chapter"
          /\ Chapter_from_xml_raises(xml.root.children[i])

\* Document.from_xml
Document_from_xml(xml) ==
    LET root  == xml.root
        chaps == findall(root, "chapter")
    IN  Document(get(root.attrib, "title", UntitledDocument),
                 [ i \in 1..Len(chaps) |-> Chapter_from_xml(chaps[i]) ])

---------------------------------------------------------------------------
(* Chapter.from_word *)

\* block.style.name.startswith('Heading')
IsHeading(block) ==
    IsDocxParagraph(block) /\ startswith(block.style, StyleHeading)

\* int(block.style.name.split()[-1]) raises
HeadingLevelRaises(block) == int_raises(split_last(block.style))

\* int(block.style.name.split()[-1])
HeadingLevel(block) == int(split_last(block.style))

\* chapters.append(current_chapter) when current_chapter is not None;
\* current_chapter is << >> (None) or << chapter >>
CloseChapter(chapters_, current_chapter) == chapters_ \o current_chapter

\* mutant: the subchapters are assigned, not appended
ExtendChapter_assign(current_chapter, subchapters) ==
    IF current_chapter # << >>
    THEN << [ current_chapter[1] EXCEPT !.elements = subchapters ] >>
    ELSE current_chapter

\* mutant: the subchapters are put before the elements already there
ExtendChapter_prepend(current_chapter, subchapters) ==
    IF current_chapter # << >>
    THEN << [ current_chapter[1] EXCEPT !.elements = subchapters \o @ ] >>
    ELSE current_chapter

\* current_chapter.elements.extend(subchapters) when current_chapter is not None
ExtendChapter(current_chapter, subchapters) ==
    IF current_chapter # << >>
    THEN << [ current_chapter[1] EXCEPT !.elements = @ \o subchapters ] >>
    ELSE current_chapter

\* mutant: content that has no chapter yet opens an implicit one
AppendElement_implicit(current_chapter, element) ==
    IF current_chapter # << >>
    THEN << [ current_chapter[1] EXCEPT !.elements = Append(@, element) ] >>
    ELSE << [ kind |-> "Chapter", title |-> << >>, id_ |-> << "implicit" >>,
              elements |-> << element >> ] >>

\* current_chapter.elements.append(element) when current_chapter is not None
AppendElement(current_chapter, element) ==
    IF current_chapter # << >>
    THEN << [ current_chapter[1] EXCEPT !.elements = Append(@, element) ] >>
    ELSE current_chapter

\* mutant: the break on a heading of an ancestor's level is left out
EndsScan_never(current_heading_level, heading_level) == FALSE

\* the heading at current_index ends the scan at heading_level
EndsScan(current_heading_level, heading_level) ==
    current_heading_level < heading_level

\* the heading at current_index opens a chapter at heading_level
OpensChapter(current_heading_level, heading_level) ==
    current_heading_level = heading_level

\* mutant: the recursive call descends one level at a time
SubchapterLevel_contiguous(current_heading_level, heading_level) ==
    heading_level + 1

\* the heading level the recursive call parses at
SubchapterLevel(current_heading_level, heading_level) == current_heading_level

\* mutant: the scan resumes at the block after the heading that started the
\* recursive call, not where that call stopped
ResumeAt_next(sub_index, current_index) == current_index + 1

\* subchapters, current_index = Chapter.from_word(...): the scan resumes at
\* the index the recursive call returned
ResumeAt(sub_index, current_index) == sub_index

RECURSIVE Chapter_from_word(_, _, _)
RECURSIVE ChapterLoop(_, _, _, _, _)

\* the while loop of Chapter.from_word, from one iteration on
ChapterLoop(paragraphs, current_index, heading_level, chapters_, current_chapter) ==
    IF ~ (current_index < Len(paragraphs))
    THEN [ chapters |-> CloseChapter(chapters_, current_chapter),
           index    |-> current_index ]
    ELSE
    LET block == paragraphs[current_index + 1]
    IN  IF IsHeading(block)
        THEN IF HeadingLevelRaises(block)
             THEN ChapterLoop(paragraphs, current_index + 1, heading_level,
                              chapters_, current_chapter)
             ELSE
             LET current_heading_level == HeadingLevel(block)
             IN  IF EndsScan(current_heading_level, heading_level)
                 THEN [ chapters |-> CloseChapter(chapters_, current_chapter),
                        index    |-> current_index ]
                 ELSE IF OpensChapter(current_heading_level, heading_level)
                 THEN ChapterLoop(paragraphs, current_index + 1, heading_level,
                                  CloseChapter(chapters_, current_chapter),
                                  << Chapter(block.text, ChapterId(current_index), << >>) >>)
                 ELSE
                 LET sub == Chapter_from_word(paragraphs, current_index,
                                              SubchapterLevel(current_heading_level,
                                                              heading_level))
                 IN  ChapterLoop(paragraphs, ResumeAt(sub.index, current_index),
                                 heading_level, chapters_,
                                 ExtendChapter(current_chapter, sub.chapters))
        ELSE IF IsDocxTable(block)
        THEN ChapterLoop(paragraphs, current_index + 1, heading_level, chapters_,
                         AppendElement(current_chapter, Table_from_word(block)))
        ELSE \* a DocxParagraph that is no heading: iter_block_items yields
             \* paragraphs and tables only, so the last branch (an unknown
             \* block type, skipped) is never taken
             IF strip(block.text) # << >>
             THEN ChapterLoop(paragraphs, current_index + 1, heading_level, chapters_,
                              AppendElement(current_chapter, Paragraph_from_word(block)))
             ELSE ChapterLoop(paragraphs, current_index + 1, heading_level, chapters_,
                              current_chapter)

\* Chapter.from_word(paragraphs, current_index, heading_level, docx_document):
\* the chapters parsed and the updated current_index
Chapter_from_word(paragraphs, current_index, heading_level) ==
    ChapterLoop(paragraphs, current_index, heading_level, << >>, << >>)

---------------------------------------------------------------------------
(* Document.from_word *)

\* block.style.name.startswith('Title')
IsTitle(block) ==
    IsDocxParagraph(block) /\ startswith(block.style, StyleTitle)

\* if not title: title = "Untitled Document"
TitleOrDefault(title_) ==
    IF title_ = None \/ title_ = << >> THEN UntitledDocument ELSE title_

\* one more iteration of the while loop, counted up to one past the input size
CountIteration(n, paragraphs) == IF n <= Len(paragraphs) THEN n + 1 ELSE n

\* the locals of Document.from_word after lines 421-423
LoopStart == [ index |-> 0, title |-> None, chapters |-> << >> ]

\* an iteration of the while loop on a Title paragraph
TitleIteration(paragraphs, s) ==
    [ s EXCEPT !.title = strip(paragraphs[s.index + 1].text),
               !.index = @ + 1 ]

\* an iteration of the while loop on any other block
ChaptersIteration(paragraphs, s) ==
    LET r == Chapter_from_word(paragraphs, s.index, 1)
    IN  [ s EXCEPT !.chapters = @ \o r.chapters, !.index = r.index ]

\* the while loop of Document.from_word and its return value
RECURSIVE DocumentLoop(_, _)
DocumentLoop(paragraphs, s) ==
    IF ~ (s.index < Len(paragraphs))
    THEN Document(TitleOrDefault(s.title), s.chapters)
    ELSE IF IsTitle(paragraphs[s.index + 1])
    THEN DocumentLoop(paragraphs, TitleIteration(paragraphs, s))
    ELSE DocumentLoop(paragraphs, ChaptersIteration(paragraphs, s))

\* Document.from_word on the blocks of a file, where it returns
Document_from_word(paragraphs) == DocumentLoop(paragraphs, LoopStart)

Locals == [ index |-> index, title |-> title, chapters |-> chapters ]

DocTitleStep ==
    /\ pc = "from_word"
    /\ index < Len(blocks)
    /\ IsTitle(blocks[index + 1])
    /\ LET s == TitleIteration(blocks, Locals)
       IN  /\ title' = s.title
           /\ index' = s.index
           /\ chapters' = s.chapters
    /\ iterations' = CountIteration(iterations, blocks)
    /\ UNCHANGED << task, pc, input_file, output_file, output_before, blocks,
                    doc, xml_string, reparsed, table, docx_document >>

DocChaptersStep ==
    /\ pc = "from_word"
    /\ index < Len(blocks)
    /\ ~ IsTitle(blocks[index + 1])
    /\ LET s == ChaptersIteration(blocks, Locals)
       IN  /\ title' = s.title
           /\ index' = s.index
           /\ chapters' = s.chapters
    /\ iterations' = CountIteration(iterations, blocks)
    /\ UNCHANGED << task, pc, input_file, output_file, output_before, blocks,
                    doc, xml_string, reparsed, table, docx_document >>

\* the loop ends and Document.from_word returns cls(title, chapters)
DocReturn ==
    /\ pc = "from_word"
    /\ ~ (index < Len(blocks))
    /\ doc' = Document(TitleOrDefault(title), chapters)
    /\ pc' = "built"
    /\ UNCHANGED << task, input_file, output_file, output_before, blocks, index,
                    title, chapters, iterations, xml_string, reparsed, table,
                    docx_document >>

---------------------------------------------------------------------------
(* Files *)

NoFile      == [ exists |-> FALSE, readable |-> FALSE, content |-> << >> ]

\* a file that is no Word document: DocxDocument(file_path) raises
CorruptFile == [ exists |-> TRUE, readable |-> FALSE, content |-> << >> ]

\* a Word document with the given blocks
DocxFile(paragraphs) ==
    [ exists |-> TRUE, readable |-> TRUE, content |-> paragraphs ]

\* a text file with the given XML text
XmlFile(xml) == [ exists |-> TRUE, readable |-> TRUE, content |-> << xml >> ]

NoDocument == [ title |-> None, elements |-> << >> ]
NoTable    == Table(<< >>, << >>)
NoXml      == MalformedXml

---------------------------------------------------------------------------
(* Word documents whose outline is reconstructed *)

\* the block of each kind at position i; its text carries Letter(i)
OutlineBlock(k, i) ==
    CASE k = "Title"  -> DocxParagraph(StyleTitle, << Letter(i) >>)
      [] k = "Normal" -> DocxParagraph(StyleNormal, << Letter(i), " " >>)
      [] k = "Blank"  -> DocxParagraph(StyleNormal, << " " >>)
      [] k = "Table"  -> DocxTable(<< << DocxCell(<< Letter(i) >>) >>,
                                      << DocxCell(<< " ", Letter(i) >>) >> >>)
      [] k = "H1"     -> DocxParagraph(HeadingStyle(1), << " ", Letter(i) >>)
      [] k = "H2"     -> DocxParagraph(HeadingStyle(2), << Letter(i) >>)
      [] k = "H4"     -> DocxParagraph(HeadingStyle(4), << Letter(i) >>)
      [] k = "H0"     -> DocxParagraph(StyleHeading \o << " ", "0" >>, << Letter(i) >>)
      [] k = "Hx"     -> DocxParagraph(StyleHeading \o << " ", "x" >>, << Letter(i) >>)

OutlineKinds ==
    { "Title", "Normal", "Blank", "Table", "H1", "H2", "H4", "H0", "Hx" }

\* the state of Document.from_word after lines 418-423
InitOutline ==
    /\ task = "Document.from_word"
    /\ pc = "from_word"
    /\ input_file = NoFile
    /\ output_file = NoFile
    /\ output_before = NoFile
    /\ \E n \in 0..MaxOutline :
         \E k \in [ 1..n -> OutlineKinds ] :
            blocks = [ i \in 1..n |-> OutlineBlock(k[i], i - 1) ]
    /\ index = 0
    /\ title = None
    /\ chapters = << >>
    /\ iterations = 0
    /\ doc = NoDocument
    /\ xml_string = NoXml
    /\ reparsed = NoDocument
    /\ table = NoTable
    /\ docx_document = << >>

NextOutline == DocTitleStep \/ DocChaptersStep \/ DocReturn

SpecOutline == InitOutline /\ [][NextOutline]_vars

---------------------------------------------------------------------------
(* Documents of the tree format *)

Text(c) == << c >>

\* the elements the documents of the model are built from, by name
CodecElement(k) ==
    CASE k = "Paragraph" -> Paragraph(<< "p", " " >>)
      [] k = "Empty"     -> Paragraph(<< >>)
      [] k = "Table"     -> Table(<< << Text("n"), None >> >>,
                                  << << Text("v") >>, << << >>, Text("w") >> >>)
      [] k = "Width"     -> Table(<< << Text("n"), << "5", "0" >> >>,
                                     << Text("m"), << "a", "b", "c" >> >> >>,
                                  << << Text("v"), Text("w") >> >>)
      [] k = "NoWidth"   -> Table(<< << Text("n"), << >> >> >>, << >>)
      [] k = "Chapter"   -> Chapter(<< "c", " " >>, Text("x"), << >>)
      [] k = "Nested"    -> Chapter(Text("c"), Text("y"),
                              << Paragraph(Text("q")),
                                 Table(<< << Text("n"), << "5", "0" >> >> >>,
                                       << << Text("v") >> >>),
                                 Chapter(Text("d"), Text("z"),
                                         << Paragraph(Text("r")) >>) >>)
      [] k = "Plain"     -> Chapter(Text("e"), Text("u"),
                              << Table(<< << Text("n"), << >> >> >>,
                                       << << Text("v") >> >>) >>)

CodecKinds ==
    { "Paragraph", "Empty", "Table", "Width", "NoWidth", "Chapter", "Nested",
      "Plain" }

CodecTitles == { << >>, << "D" >> }

\* most top-level elements of a document of the model
MaxTopLevel == 2

---------------------------------------------------------------------------
(* tasks.py: create_word_from_x2doc and create_x2doc_from_word *)

\* the kinds of block of the Word documents the tasks read; the tables have
\* a data row as long as the header row, longer, shorter, or no row at all
TaskBlock(k, i) ==
    CASE k = "TableLong"  -> DocxTable(<< << DocxCell(<< Letter(i) >>) >>,
                                          << DocxCell(<< Letter(i), "1" >>),
                                             DocxCell(<< Letter(i), "2" >>) >> >>)
      [] k = "TableShort" -> DocxTable(<< << DocxCell(<< Letter(i), "1" >>),
                                             DocxCell(<< Letter(i), "2" >>) >>,
                                          << DocxCell(<< Letter(i) >>) >> >>)
      [] k = "TableEmpty" -> DocxTable(<< >>)
      [] OTHER            -> OutlineBlock(k, i)

TaskKinds ==
    { "Title", "Normal", "Blank", "Table", "TableLong", "TableShort",
      "TableEmpty", "H1", "H2", "H4", "Hx" }

\* longest block list of a Word document a task reads
MaxLen == 3

\* the x2doc texts the tasks read: documents of the model with chapters at
\* the top level, a document without title and with an unknown tag, a table
\* without columns, and text that is no XML
TaskChapterKinds == { "Chapter", "Nested", "Plain" }

UntitledXml ==
    tostring(Element("document", { }, None,
               << Element("chapter", { }, None,
                    << Element("note", { }, Text("s"), << >>),
                       Element("paragraph", { }, Text("t"), << >>) >>) >>))

NoColumnsXml ==
    tostring(Element("document", { << "title", Text("D") >> }, None,
               << Element("chapter", { << "title", Text("c") >> }, None,
                    << Element("table", { }, None, << >>) >>) >>))

\* what stands at the output path before the task runs
OldOutput(t) ==
    IF t = "create_word_from_x2doc"
    THEN DocxFile(<< DocxParagraph(StyleNormal, << "o", "l", "d" >>) >>)
    ELSE XmlFile(tostring(Element("document", { << "title", << "o", "l", "d" >> >> },
                                  None, << >>)))

\* the call of a task
Init ==
    /\ task \in { "create_word_from_x2doc", "create_x2doc_from_word" }
    /\ pc = "start"
    /\ \/ input_file = NoFile
       \/ /\ task = "create_x2doc_from_word"
          /\ input_file = CorruptFile
       \/ /\ task = "create_x2doc_from_word"
          /\ \E n \in 0..MaxLen :
               \E k \in [ 1..n -> TaskKinds ] :
                  input_file = DocxFile([ i \in 1..n |-> TaskBlock(k[i], i - 1) ])
       \/ /\ task = "create_word_from_x2doc"
          /\ \/ input_file \in { XmlFile(MalformedXml), XmlFile(UntitledXml),
                                 XmlFile(NoColumnsXml) }
             \/ \E t \in CodecTitles :
                  \E n \in 0..MaxTopLevel :
                    \E k \in [ 1..n -> TaskChapterKinds ] :
                       input_file = XmlFile(Document_to_xml(
                          Document(t, [ i \in 1..n |-> CodecElement(k[i]) ])))
    /\ output_file \in { NoFile, OldOutput(task) }
    /\ output_before = output_file
    /\ blocks = << >>
    /\ index = 0
    /\ title = None
    /\ chapters = << >>
    /\ iterations = 0
    /\ doc = NoDocument
    /\ xml_string = NoXml
    /\ reparsed = NoDocument
    /\ table = NoTable
    /\ docx_document = << >>

\* if (not input_file.exists()): print(...); return
TaskInputMissing ==
    /\ pc = "start"
    /\ ~ input_file.exists
    /\ pc' = "returned"
    /\ UNCHANGED << task, input_file, output_file, output_before, blocks, index,
                    title, chapters, iterations, doc, xml_string, reparsed,
                    table, docx_document >>

\* if (output_file.exists()): print(...); os.remove(output_file)
TaskRemoveOutput ==
    /\ pc = "start"
    /\ input_file.exists
    /\ output_file' = IF output_file.exists THEN NoFile ELSE output_file
    /\ pc' = "build"
    /\ UNCHANGED << task, input_file, output_before, blocks, index, title,
                    chapters, iterations, doc, xml_string, reparsed, table,
                    docx_document >>

\* create_word_from_x2doc: doc = Document.from_xml(input_file.read_text())
WordFromXml ==
    /\ pc = "build"
    /\ task = "create_word_from_x2doc"
    /\ IF Document_from_xml_raises(input_file.content[1])
       THEN /\ pc' = "raised"
            /\ UNCHANGED doc
       ELSE /\ doc' = Document_from_xml(input_file.content[1])
            /\ pc' = "built"
    /\ UNCHANGED << task, input_file, output_file, output_before, blocks, index,
                    title, chapters, iterations, xml_string, reparsed, table,
                    docx_document >>

\* create_word_from_x2doc: doc.to_word(output_file)
WordSave ==
    /\ pc = "built"
    /\ task = "create_word_from_x2doc"
    /\ docx_document' = Document_to_word(doc)
    /\ output_file' = DocxFile(docx_document')
    /\ pc' = "done"
    /\ UNCHANGED << task, input_file, output_before, blocks, index, title,
                    chapters, iterations, doc, xml_string, reparsed, table >>

\* create_x2doc_from_word: Document.from_word(input_file) up to its loop
X2docOpen ==
    /\ pc = "build"
    /\ task = "create_x2doc_from_word"
    /\ IF ~ input_file.readable
       THEN /\ pc' = "raised"
            /\ UNCHANGED << blocks, index, title, chapters >>
       ELSE /\ blocks' = input_file.content
            /\ index' = LoopStart.index
            /\ title' = LoopStart.title
            /\ chapters' = LoopStart.chapters
            /\ pc' = "from_word"
    /\ UNCHANGED << task, input_file, output_file, output_before, iterations,
                    doc, xml_string, reparsed, table, docx_document >>

\* create_x2doc_from_word: output_file.write_text(doc.to_xml())
X2docWrite ==
    /\ pc = "built"
    /\ task = "create_x2doc_from_word"
    /\ xml_string' = Document_to_xml(doc)
    /\ output_file' = XmlFile(xml_string')
    /\ pc' = "done"
    /\ UNCHANGED << task, input_file, output_before, blocks, index, title,
                    chapters, iterations, doc, reparsed, table, docx_document >>

Next ==
    \/ TaskInputMissing
    \/ TaskRemoveOutput
    \/ WordFromXml
    \/ WordSave
    \/ X2docOpen
    \/ DocTitleStep
    \/ DocChaptersStep
    \/ DocReturn
    \/ X2docWrite

Spec == Init /\ [][Next]_vars

---------------------------------------------------------------------------
(* The tree-format codec on its own: to_xml, then from_xml *)

InitCodec ==
    /\ task = "Document.to_xml"
    /\ pc = "to_xml"
    /\ input_file = NoFile
    /\ output_file = NoFile
    /\ output_before = NoFile
    /\ blocks = << >>
    /\ index = 0
    /\ title = None
    /\ chapters = << >>
    /\ iterations = 0
    /\ \E t \in CodecTitles :
         \E n \in 0..MaxTopLevel :
           \E k \in [ 1..n -> CodecKinds ] :
              doc = Document(t, [ i \in 1..n |-> CodecElement(k[i]) ])
    /\ xml_string = NoXml
    /\ reparsed = NoDocument
    /\ table = NoTable
    /\ docx_document = << >>

CodecToXml ==
    /\ pc = "to_xml"
    /\ xml_string' = Document_to_xml(doc)
    /\ pc' = "from_xml"
    /\ UNCHANGED << task, input_file, output_file, output_before, blocks, index,
                    title, chapters, iterations, doc, reparsed, table,
                    docx_document >>

CodecFromXml ==
    /\ pc = "from_xml"
    /\ ~ Document_from_xml_raises(xml_string)
    /\ reparsed' = Document_from_xml(xml_string)
    /\ pc' = "reparsed"
    /\ UNCHANGED << task, input_file, output_file, output_before, blocks, index,
                    title, chapters, iterations, doc, xml_string, table,
                    docx_document >>

NextCodec == CodecToXml \/ CodecFromXml

SpecCodec == InitCodec /\ [][NextCodec]_vars

---------------------------------------------------------------------------
(* Table.to_word on its own *)

\* most columns, rows and cells of a row of a table of the model
MaxColumns == 2
MaxRows    == 2
MaxCells   == 3

\* the width strings of the columns of the model
TableWidths == { None, << >>, << "5", "0" >>, << "a", "b", "c" >> }

InitTable ==
    /\ task = "Table.to_word"
    /\ pc = "to_word"
    /\ input_file = NoFile
    /\ output_file = NoFile
    /\ output_before = NoFile
    /\ blocks = << >>
    /\ index = 0
    /\ title = None
    /\ chapters = << >>
    /\ iterations = 0
    /\ doc = NoDocument
    /\ xml_string = NoXml
    /\ reparsed = NoDocument
    /\ \E nc \in 0..MaxColumns, nr \in 0..MaxRows :
         \E w \in [ 1..nc -> TableWidths ], len \in [ 1..nr -> 0..MaxCells ] :
            table = Table([ i \in 1..nc |-> << << "n", Decimal(i) >>, w[i] >> ],
                          [ r \in 1..nr |->
                              [ i \in 1..len[r] |-> << Letter(r), Decimal(i) >> ] ])
    /\ docx_document = << >>

\* if not self.columns: return
TableNoColumns ==
    /\ pc = "to_word"
    /\ table.columns = << >>
    /\ docx_document' = Table_to_word(docx_document, table)
    /\ pc' = "returned"
    /\ UNCHANGED << task, input_file, output_file, output_before, blocks, index,
                    title, chapters, iterations, doc, xml_string, reparsed,
                    table >>

\* the table is added with its header row and its data rows
TableEmit ==
    /\ pc = "to_word"
    /\ table.columns # << >>
    /\ docx_document' = Table_to_word(docx_document, table)
    /\ pc' = "emitted"
    /\ UNCHANGED << task, input_file, output_file, output_before, blocks, index,
                    title, chapters, iterations, doc, xml_string, reparsed,
                    table >>

NextTable == TableNoColumns \/ TableEmit

SpecTable == InitTable /\ [][NextTable]_vars

---------------------------------------------------------------------------
(* Reading a reconstructed tree *)

IsChapter(e) == e.kind = "Chapter"

\* the chapters among the elements of a chapter
Subchapters(c) == SelectSeq(c.elements, IsChapter)

\* the blocks are exactly headings of the given levels, in order
HeadingLevelsAre(paragraphs, levels) ==
    /\ Len(paragraphs) = Len(levels)
    /\ \A i \in 1..Len(levels) :
          /\ IsHeading(paragraphs[i])
          /\ ~ HeadingLevelRaises(paragraphs[i])
          /\ HeadingLevel(paragraphs[i]) = levels[i]

\* Chapter.from_word(blocks, 0, 1) has returned into Document.from_word: the
\* first block is no Title, so the first iteration of the loop is that call
FirstCallReturned ==
    /\ iterations = 1
    /\ blocks # << >>
    /\ ~ IsTitle(blocks[1])

\* how many chapters deep the chapter with the given id lies below chapter c
\* (1: a direct child; 0: not below c)
RECURSIVE DepthBelow(_, _)
DepthBelow(c, id) ==
    LET subs == Subchapters(c)
    IN  IF \E i \in 1..Len(subs) : subs[i].id_ = id THEN 1
        ELSE IF \E i \in 1..Len(subs) : DepthBelow(subs[i], id) > 0
        THEN 1 + DepthBelow(subs[CHOOSE i \in 1..Len(subs) :
                                    DepthBelow(subs[i], id) > 0], id)
        ELSE 0

---------------------------------------------------------------------------
(* C1: heading-level tie-break *)

\* C1 as stated: headings at levels [1,2,2,1] give exactly two top-level
\* chapters, the first with one subchapter and the second with none.
C1_TieBreakOneSubchapter ==
    (FirstCallReturned /\ HeadingLevelsAre(blocks, << 1, 2, 2, 1 >>)) =>
        /\ Len(chapters) = 2
        /\ Len(Subchapters(chapters[1])) = 1
        /\ Len(Subchapters(chapters[2])) = 0

\* C1 amended: headings at levels [1,2,2,1] give exactly two top-level
\* chapters; the first holds both level-2 headings as two sibling subchapters
\* (neither nested in the other), the second holds none.
C1_TieBreakTwoSiblings ==
    (FirstCallReturned /\ HeadingLevelsAre(blocks, << 1, 2, 2, 1 >>)) =>
        /\ Len(chapters) = 2
        /\ index = 4
        /\ chapters[1].id_ = ChapterId(0)
        /\ chapters[2].id_ = ChapterId(3)
        /\ Len(chapters[1].elements) = 2
        /\ chapters[1].elements[1].id_ = ChapterId(1)
        /\ chapters[1].elements[2].id_ = ChapterId(2)
        /\ chapters[1].elements[1].elements = << >>
        /\ chapters[1].elements[2].elements = << >>
        /\ chapters[2].elements = << >>

C1_Witness ==
    /\ FirstCallReturned
    /\ HeadingLevelsAre(blocks, << 1, 2, 2, 1 >>)
    /\ Len(chapters) = 2

---------------------------------------------------------------------------
(* C2: gap tolerance *)

IsGapInput(paragraphs) ==
    /\ Len(paragraphs) = 3
    /\ HeadingLevelsAre(SubSeq(paragraphs, 1, 2), << 1, 4 >>)
    /\ IsDocxParagraph(paragraphs[3])
    /\ ~ IsHeading(paragraphs[3])
    /\ ~ IsTitle(paragraphs[3])
    /\ strip(paragraphs[3].text) # << >>

\* C2 as stated: for [level-1 heading, level-4 heading, paragraph] the level-4
\* heading and its paragraph are a descendant chapter three levels deep below
\* the level-1 chapter.
C2_GapThreeDeep ==
    (FirstCallReturned /\ IsGapInput(blocks)) =>
        /\ Len(chapters) = 1
        /\ DepthBelow(chapters[1], ChapterId(1)) = 3

\* C2 amended: for [level-1 heading, level-4 heading, paragraph] the call
\* returns one level-1 chapter whose only element is the level-4 heading's
\* chapter, a direct child (one level deep), which holds the paragraph.
C2_GapDirectChild ==
    (FirstCallReturned /\ IsGapInput(blocks)) =>
        /\ Len(chapters) = 1
        /\ index = 3
        /\ chapters[1].id_ = ChapterId(0)
        /\ DepthBelow(chapters[1], ChapterId(1)) = 1
        /\ Len(chapters[1].elements) = 1
        /\ chapters[1].elements[1].kind = "Chapter"
        /\ chapters[1].elements[1].title = strip(blocks[2].text)
        /\ chapters[1].elements[1].elements = << Paragraph_from_word(blocks[3]) >>

C2_Witness ==
    /\ FirstCallReturned
    /\ IsGapInput(blocks)
    /\ Len(chapters) = 1

---------------------------------------------------------------------------
(* Blocks and the elements they give *)

\* a heading whose level token is an integer
IsLevelHeading(block) == IsHeading(block) /\ ~ HeadingLevelRaises(block)

\* the block is kept by the reconstruction when a chapter is open: not an
\* empty paragraph, not a heading with a malformed level
IsRetained(block) ==
    IF IsHeading(block) THEN ~ HeadingLevelRaises(block)
    ELSE IF IsDocxTable(block) THEN TRUE
    ELSE strip(block.text) # << >>

\* the element that the block at position i (0-based) gives, a chapter
\* without its elements
ElementOf(paragraphs, i) ==
    LET block == paragraphs[i + 1]
    IN  IF IsHeading(block) THEN Chapter(block.text, ChapterId(i), << >>)
        ELSE IF IsDocxTable(block) THEN Table_from_word(block)
        ELSE Paragraph_from_word(block)

\* the elements that the retained blocks at positions from..to-1 give
RECURSIVE RetainedElements(_, _, _)
RetainedElements(paragraphs, from, to) ==
    IF from >= to THEN << >>
    ELSE (IF IsRetained(paragraphs[from + 1])
          THEN << ElementOf(paragraphs, from) >> ELSE << >>)
         \o RetainedElements(paragraphs, from + 1, to)

\* the elements of a tree in pre-order, each chapter without its elements
RECURSIVE Preorder(_)
Preorder(elements) ==
    IF elements = << >> THEN << >>
    ELSE LET e == Head(elements)
         IN  (IF IsChapter(e)
              THEN << [ e EXCEPT !.elements = << >> ] >> \o Preorder(e.elements)
              ELSE << e >>)
             \o Preorder(Tail(elements))

\* the chapters of a tree, at any depth
RECURSIVE ChaptersIn(_)
ChaptersIn(elements) ==
    IF elements = << >> THEN { }
    ELSE LET e == Head(elements)
         IN  (IF IsChapter(e) THEN { e } \cup ChaptersIn(e.elements) ELSE { })
             \cup ChaptersIn(Tail(elements))

Range(seq) == { seq[i] : i \in 1..Len(seq) }

\* the position (0-based) of the heading that opened chapter c
PositionOf(paragraphs, c) ==
    CHOOSE i \in 0..(Len(paragraphs) - 1) : ChapterId(i) = c.id_

\* the position of the first heading after position i whose level is at most
\* that of the heading at i, or the length of the list
SpanEnd(paragraphs, i) ==
    LET ends == { j \in (i + 1)..(Len(paragraphs) - 1) :
                    /\ IsLevelHeading(paragraphs[j + 1])
                    /\ HeadingLevel(paragraphs[j + 1])
                         <= HeadingLevel(paragraphs[i + 1]) }
    IN  IF ends = { } THEN Len(paragraphs)
        ELSE CHOOSE j \in ends : \A k \in ends : j <= k

\* the position of the first level-1 heading, or the length of the list
FirstLevel1(paragraphs) ==
    LET ones == { j \in 0..(Len(paragraphs) - 1) :
                    /\ IsLevelHeading(paragraphs[j + 1])
                    /\ HeadingLevel(paragraphs[j + 1]) = 1 }
    IN  IF ones = { } THEN Len(paragraphs)
        ELSE CHOOSE j \in ones : \A k \in ones : j <= k

---------------------------------------------------------------------------
(* C5: reconstruction terminates *)

\* C5: Document.from_word returns after a number of iterations of its loop
\* bounded by the input size: every iteration consumes a block, so there are
\* never more iterations than blocks.
C5_IterationsBounded == iterations <= Len(blocks)

---------------------------------------------------------------------------
(* C7: document title selection *)

\* the positions before any heading block
BeforeHeadings(paragraphs) ==
    { i \in 1..Len(paragraphs) :
        \A j \in 1..i : ~ IsHeading(paragraphs[j]) }

\* C7: a Title paragraph that stands anywhere before the first heading block
\* is the document title; without one the title is "Untitled Document".
C7_TitleBeforeHeadings ==
    pc = "built" =>
        LET titles == { i \in BeforeHeadings(blocks) : IsTitle(blocks[i]) }
        IN  IF titles # { }
            THEN \E i \in titles : doc.title = strip(blocks[i].text)
            ELSE doc.title = UntitledDocument

---------------------------------------------------------------------------
(* C8: chapter containment *)

\* C8: the contents of every chapter of the tree, in pre-order, are exactly
\* the elements of the retained blocks between the chapter's heading and the
\* next heading of a level at most its own (or the end), in that order.
C8_ChapterContainment ==
    \A c \in ChaptersIn(chapters) :
        LET i == PositionOf(blocks, c)
        IN  /\ c = [ ElementOf(blocks, i) EXCEPT !.elements = c.elements ]
            /\ Preorder(c.elements)
                 = RetainedElements(blocks, i + 1, SpanEnd(blocks, i))

\* a returned tree with a chapter that holds a paragraph or table and a
\* subchapter, and whose span ends before the end of the list
C8_Witness ==
    /\ pc = "built"
    /\ \E c \in ChaptersIn(doc.elements) :
          /\ Len(c.elements) >= 2
          /\ ~ IsChapter(c.elements[1])
          /\ Subchapters(c) # << >>
          /\ SpanEnd(blocks, PositionOf(blocks, c)) < Len(blocks)

---------------------------------------------------------------------------
(* C9: orphan content drop *)

\* C9: a table, a non-empty paragraph or a heading of a level above 1 that
\* stands before the first level-1 heading is absent from the tree that
\* Document.from_word returns, and without a level-1 heading the tree has no
\* chapter.
C9_OrphansDropped ==
    pc = "built" =>
        /\ \A j \in 0..(FirstLevel1(blocks) - 1) :
              IsRetained(blocks[j + 1]) =>
                 /\ ElementOf(blocks, j) \notin Range(Preorder(doc.elements))
                 /\ \A c \in ChaptersIn(doc.elements) : c.id_ # ChapterId(j)
        /\ FirstLevel1(blocks) = Len(blocks) => doc.elements = << >>

\* a returned tree with a chapter, where a table, a paragraph and a level-2
\* heading stood before the first level-1 heading
C9_Witness ==
    /\ pc = "built"
    /\ doc.elements # << >>
    /\ \E j \in 0..(FirstLevel1(blocks) - 1) : IsDocxTable(blocks[j + 1])
    /\ \E j \in 0..(FirstLevel1(blocks) - 1) :
          /\ IsLevelHeading(blocks[j + 1])
          /\ HeadingLevel(blocks[j + 1]) > 1

---------------------------------------------------------------------------
(* C3: round trip through the tree format *)

\* C3: Document.from_xml(d.to_xml()) equals d, for every Document d of the
\* model: any title, any top-level elements, any column width or none.
C3_RoundTrip == pc = "reparsed" => reparsed = doc

---------------------------------------------------------------------------
(* C4: flattening is faithful for reconstructed values *)

RECURSIVE WithoutIds(_)
\* the elements with every chapter id erased
WithoutIds(elements) ==
    [ i \in 1..Len(elements) |->
        IF IsChapter(elements[i])
        THEN [ elements[i] EXCEPT !.id_ = << >>,
                                  !.elements = WithoutIds(elements[i].elements) ]
        ELSE elements[i] ]

\* equal in title, chapter titles, nesting, element order and element content
SameButIds(d1, d2) ==
    /\ d1.title = d2.title
    /\ WithoutIds(d1.elements) = WithoutIds(d2.elements)

\* no drop event: every block gave the title or an element of the tree
NoDropEvent ==
    Len(blocks) = Len(Preorder(doc.elements))
                    + (IF blocks # << >> /\ IsTitle(blocks[1]) THEN 1 ELSE 0)

\* every table block has a header row with a cell, and data rows as long as
\* the header row
RegularTables(paragraphs) ==
    \A i \in 1..Len(paragraphs) :
        IsDocxTable(paragraphs[i]) =>
            /\ paragraphs[i].rows # << >>
            /\ paragraphs[i].rows[1] # << >>
            /\ \A r \in 1..Len(paragraphs[i].rows) :
                  Len(paragraphs[i].rows[r]) = Len(paragraphs[i].rows[1])

Reconstructed == task = "create_x2doc_from_word" /\ pc = "built"

---------------------------------------------------------------------------
(* C6: no partial mutation of the output on failure *)

\* C6: when the input is missing or building the in-memory model fails, the
\* output path is as it was when the task was called.
C6_OutputUntouchedOnFailure ==
    pc \in { "returned", "raised" } => output_file = output_before

---------------------------------------------------------------------------
(* C10: cell clipping *)

\* C10: for a table with N >= 1 columns Table.to_word emits one table block
\* with the header row and one row per stored row; each row has N cells, the
\* first N cells of the stored row, and empty cells where the stored row is
\* shorter.
C10_CellClipping ==
    pc = "emitted" =>
        /\ Len(docx_document) = 1
        /\ IsDocxTable(docx_document[1])
        /\ LET n    == Len(table.columns)
               rows == docx_document[1].rows
           IN  /\ Len(rows) = 1 + Len(table.rows)
               /\ Len(rows[1]) = n
               /\ \A i \in 1..n : rows[1][i].text = table.columns[i][1]
               /\ \A r \in 1..Len(table.rows) :
                     /\ Len(rows[r + 1]) = n
                     /\ \A i \in 1..n :
                           rows[r + 1][i].text =
                              IF i <= Len(table.rows[r])
                              THEN table.rows[r][i] ELSE << >>

\* an emitted table with a stored row longer than the columns and one shorter
C10_Witness ==
    /\ pc = "emitted"
    /\ \E r \in 1..Len(table.rows) : Len(table.rows[r]) > Len(table.columns)
    /\ \E r \in 1..Len(table.rows) : Len(table.rows[r]) < Len(table.columns)
    /\ Len(docx_document[1].rows) = 3

---------------------------------------------------------------------------
(* C11: chapter ids are unique and index-derived *)

\* the chapters of a tree in pre-order, each without its elements
ChapterSeq(elements) == SelectSeq(Preorder(elements), IsChapter)

\* C11: in the tree that Document.from_word returns, every chapter has the id
\* "chapter-i" and the title of a heading block at position i, every heading
\* block opens at most one chapter, and no two chapters at any depth share an
\* id.
C11_ChapterIdsUnique ==
    pc = "built" =>
        LET chs == ChapterSeq(doc.elements)
        IN  /\ \A p \in 1..Len(chs) :
                  \E i \in 0..(Len(blocks) - 1) :
                     /\ IsLevelHeading(blocks[i + 1])
                     /\ chs[p].id_ = << "chapter-", Decimal(i) >>
                     /\ chs[p].title = strip(blocks[i + 1].text)
            /\ \A i \in 0..(Len(blocks) - 1) :
                  Cardinality({ p \in 1..Len(chs) :
                                  chs[p].id_ = << "chapter-", Decimal(i) >> }) <= 1
            /\ \A p, q \in 1..Len(chs) : p # q => chs[p].id_ # chs[q].id_

\* a returned tree with chapters at three depths, two of them siblings below
\* a top-level chapter
C11_Witness ==
    /\ pc = "built"
    /\ Len(ChapterSeq(doc.elements)) = 4
    /\ Len(doc.elements) = 1
    /\ Len(Subchapters(doc.elements[1])) = 2
    /\ \E k \in 1..2 : Subchapters(Subchapters(doc.elements[1])[k]) # << >>

---------------------------------------------------------------------------
(* C12: order preservation without duplication *)

\* the positions (0-based) of the retained blocks that give the element e,
\* a chapter taken without its elements
SourcePositions(paragraphs, e) ==
    { i \in 0..(Len(paragraphs) - 1) :
        /\ IsRetained(paragraphs[i + 1])
        /\ ElementOf(paragraphs, i) = e }

\* C12: the pre-order traversal of the tree that Document.from_word returns
\* visits chapters, tables and paragraphs in strictly increasing order of
\* their source block positions, so that no block gives two elements, and in
\* the element list of every chapter the tables and paragraphs stand before
\* the subchapters.
C12_OrderPreserved ==
    pc = "built" =>
        LET pre == Preorder(doc.elements)
        IN  /\ \A p \in 1..Len(pre) : SourcePositions(blocks, pre[p]) # { }
            /\ \A p, q \in 1..Len(pre) :
                  p < q =>
                     \A i \in SourcePositions(blocks, pre[p]) :
                        \A j \in SourcePositions(blocks, pre[q]) : i < j
            /\ \A c \in ChaptersIn(doc.elements) :
                  \A p, q \in 1..Len(c.elements) :
                     (p < q /\ IsChapter(c.elements[p]))
                        => IsChapter(c.elements[q])

\* a returned tree with a chapter that holds a paragraph and a table before
\* a subchapter
C12_Witness ==
    /\ pc = "built"
    /\ \E c \in ChaptersIn(doc.elements) :
          /\ Len(c.elements) = 3
          /\ { c.elements[1].kind, c.elements[2].kind } = { "Paragraph", "Table" }
          /\ IsChapter(c.elements[3])

====
